---- MODULE Spec2Model ----
(***************************************************************************)
(* SettleOne backend: the session entity (models/session.rs), the session  *)
(* store behind a tokio RwLock (services/session.rs) and the HTTP handlers *)
(* that drive it (api/session.rs).                                         *)
(*                                                                         *)
(* Strings that the code parses or formats (payment amounts, totals) are   *)
(* sequences of one-character strings, so that parse::<u128>() and         *)
(* to_string() are computed character by character.  The integer type of   *)
(* the running total is modelled with Width bits instead of 128.           *)
(***************************************************************************)
EXTENDS Integers, Sequences, FiniteSets, TLC

\* ------------------------------------------------------------------ bounds
\* Bits of the unsigned integer that holds the running total (u128 scaled).
Width == 4
\* add_payment is issued while the store holds fewer payments than this.
MaxPayments == 2
\* Number of steps the clock of the ENS service advances.
MaxTicks == 2
\* Number of request tasks that call the store concurrently.
NumProcs == 2

\* ------------------------------------------------------------- input sets
\* Option::None of an Option<Session>, and of an Option<String>.
None == [none |-> TRUE]
NoString == "null"
Ids == {"s1", "s2"}
Users == {"u1", "u2"}
Recipients == {"0xR1"}
\* The tx_hash a finalize request carries in its body.
TxHashes == {"0xabc123def456"}
Times == {1}
SessionStatus == {"Active", "Pending", "Settled", "Cancelled"}
PaymentStatus == {"Pending", "Confirmed", "Settled"}
Procs == 1..NumProcs

\* Amount strings of the requests: a plain digit string, one with a '+' and
\* a leading zero, one too large for the integer type, and strings that are
\* not numbers.
Amounts ==
  { <<"1", "2">>, <<"+", "0", "5">>, <<"9", "9">>,
    <<"a">>, <<"-", "1">>, <<>> }

\* ------------------------------------------------------ u128 and strings
U128_MAX == 2^Width - 1

DigitChars == <<"0", "1", "2", "3", "4", "5", "6", "7", "8", "9">>

IsDigit(c) == \E i \in 1..10 : DigitChars[i] = c

DigitVal(c) == (CHOOSE i \in 1..10 : DigitChars[i] = c) - 1

\* The digit loop of from_str_radix: checked_mul(10) then checked_add(d);
\* -1 stands for Err (InvalidDigit or PosOverflow).
RECURSIVE ParseDigits(_, _)
ParseDigits(s, acc) ==
  IF s = <<>> THEN acc
  ELSE IF ~IsDigit(Head(s)) THEN -1
  ELSE IF acc * 10 + DigitVal(Head(s)) > U128_MAX THEN -1
  ELSE ParseDigits(Tail(s), acc * 10 + DigitVal(Head(s)))

\* str::parse::<u128>(): empty is Err, a lone sign is Err, a leading '+' is
\* skipped, '-' is not a digit of an unsigned type.  -1 stands for Err.
ParseU128(s) ==
  IF s = <<>> THEN -1
  ELSE IF Len(s) = 1 /\ Head(s) \in {"+", "-"} THEN -1
  ELSE IF Head(s) = "+" THEN ParseDigits(Tail(s), 0)
  ELSE ParseDigits(s, 0)

\* u128::to_string(): decimal digits, no sign, no leading zero.
RECURSIVE to_string(_)
to_string(n) ==
  IF n < 10 THEN <<DigitChars[n + 1]>>
  ELSE Append(to_string(n \div 10), DigitChars[(n % 10) + 1])

\* ---------------------------------------------------------- session entity
ErrOverflow == <<"Total amount overflow">>
ErrParse(amount) == <<"Failed to parse payment amount: ", amount>>
Ok == <<"Ok">>
NotCalled == <<"NotCalled">>

Payment(id, recipient, amount, created_at) ==
  [id |-> id, recipient |-> recipient, recipient_ens |-> NoString,
   amount |-> amount, status |-> "Pending", created_at |-> created_at]

Session_new(id, user, now) ==
  [id |-> id, user |-> user, status |-> "Active", payments |-> <<>>,
   total_amount |-> <<"0">>, created_at |-> now]

\* The loop of recalculate_total over payments[i..]: the result is the total,
\* or the error of the first payment at which the loop returns.
RECURSIVE SumLoop(_, _, _)
SumLoop(payments, i, total) ==
  IF i > Len(payments) THEN [err |-> Ok, total |-> total]
  ELSE LET amount == ParseU128(payments[i].amount) IN
       IF amount = -1
         THEN [err |-> ErrParse(payments[i].amount), total |-> total]
       ELSE IF total + amount > U128_MAX
         THEN [err |-> ErrOverflow, total |-> total]
       ELSE SumLoop(payments, i + 1, total + amount)

\* Mutant of recalculate_total: the sum is computed but never stored.
recalculate_total_keepOld(session) ==
  [err |-> SumLoop(session.payments, 1, 0).err, session |-> session]

\* Mutant of recalculate_total: every failure is reported as a parse failure
\* of the last payment.
recalculate_total_oneError(session) ==
  LET r == SumLoop(session.payments, 1, 0) IN
  IF r.err = Ok
    THEN [err |-> Ok,
          session |-> [session EXCEPT !.total_amount = to_string(r.total)]]
    ELSE [err |-> ErrParse(session.payments[Len(session.payments)].amount),
          session |-> session]

\* Session::recalculate_total: total_amount is written only on success.
recalculate_total(session) ==
  LET r == SumLoop(session.payments, 1, 0) IN
  IF r.err = Ok
    THEN [err |-> Ok,
          session |-> [session EXCEPT !.total_amount = to_string(r.total)]]
    ELSE [err |-> r.err, session |-> session]

\* Mutant of PushPayment: the payment is inserted in front of the others.
PushPayment_front(session, payment) ==
  [session EXCEPT !.payments = <<payment>> \o @]

\* self.payments.push(payment)
PushPayment(session, payment) ==
  [session EXCEPT !.payments = Append(@, payment)]

\* Mutant of PopPayment: removes the oldest payment instead of the pushed one.
PopPayment_front(session) ==
  [session EXCEPT !.payments = Tail(@)]

\* self.payments.pop()
PopPayment(session) ==
  [session EXCEPT !.payments = SubSeq(@, 1, Len(@) - 1)]

\* Mutant of FinishAddPayment: the pushed payment stays when the total fails.
FinishAddPayment_noRollback(pushed) ==
  [err |-> recalculate_total(pushed).err,
   session |-> recalculate_total(pushed).session]

\* Mutant of FinishAddPayment: a successful add re-opens the session.
FinishAddPayment_activate(pushed) ==
  LET r == recalculate_total(pushed) IN
  IF r.err # Ok
    THEN [err |-> r.err, session |-> PopPayment(r.session)]
    ELSE [err |-> Ok, session |-> [r.session EXCEPT !.status = "Active"]]

\* The part of Session::add_payment after the push: recompute, roll back on Err.
FinishAddPayment(pushed) ==
  LET r == recalculate_total(pushed) IN
  IF r.err # Ok
    THEN [err |-> r.err, session |-> PopPayment(r.session)]
    ELSE [err |-> Ok, session |-> r.session]

\* Mutant of Session_add_payment: only an Active session takes payments.
Session_add_payment_activeOnly(session, payment) ==
  IF session.status # "Active"
    THEN [err |-> <<"Session is not active">>, session |-> session]
    ELSE FinishAddPayment(PushPayment(session, payment))

Session_add_payment(session, payment) ==
  FinishAddPayment(PushPayment(session, payment))

\* ------------------------------------------------------------------- store
\* The HashMap<String, Session>: None marks an absent key.
EmptyMap == [i \in Ids |-> None]

\* Mutant of Store_create: the session is returned but never inserted.
Store_create_noInsert(map, id, user, now) ==
  [map |-> map, ret |-> Session_new(id, user, now)]

\* Mutant of Store_create: the map is rebuilt with the new session alone.
Store_create_clear(map, id, user, now) ==
  [map |-> [EmptyMap EXCEPT ![id] = Session_new(id, user, now)],
   ret |-> Session_new(id, user, now)]

\* Mutant of Store_create: entry(id).or_insert, an existing session is kept.
Store_create_keepExisting(map, id, user, now) ==
  IF map[id] # None THEN [map |-> map, ret |-> map[id]]
  ELSE [map |-> [map EXCEPT ![id] = Session_new(id, user, now)],
        ret |-> Session_new(id, user, now)]

\* SessionStore::create: insert replaces whatever the key held.
Store_create(map, id, user, now) ==
  [map |-> [map EXCEPT ![id] = Session_new(id, user, now)],
   ret |-> Session_new(id, user, now)]

\* Mutant of Store_get: the lookup misses every key.
Store_get_absent(map, id) == [map |-> map, ret |-> None]

\* Mutant of Store_get: the session is taken out of the map (remove, not get).
Store_get_take(map, id) == [map |-> [map EXCEPT ![id] = None], ret |-> map[id]]

\* SessionStore::get
Store_get(map, id) == [map |-> map, ret |-> map[id]]

\* Mutant of Store_add_payment: an Err of Session::add_payment returns None.
Store_add_payment_failNone(map, id, payment) ==
  IF map[id] # None
    THEN LET r == Session_add_payment(map[id], payment) IN
         [map |-> [map EXCEPT ![id] = r.session],
          ret |-> IF r.err = Ok THEN r.session ELSE None]
    ELSE [map |-> map, ret |-> None]

\* SessionStore::add_payment: the Result of Session::add_payment is dropped.
Store_add_payment(map, id, payment) ==
  IF map[id] # None
    THEN LET r == Session_add_payment(map[id], payment) IN
         [map |-> [map EXCEPT ![id] = r.session], ret |-> r.session]
    ELSE [map |-> map, ret |-> None]

\* Mutant of Store_update_status: the status is set on the returned clone only.
Store_update_status_noWrite(map, id, status) ==
  IF map[id] # None
    THEN [map |-> map, ret |-> [map[id] EXCEPT !.status = status]]
    ELSE [map |-> map, ret |-> None]

\* Mutant of Store_update_status: a session set to Cancelled is dropped.
Store_update_status_evict(map, id, status) ==
  IF map[id] # None
    THEN [map |-> [map EXCEPT ![id] =
                     IF status = "Cancelled" THEN None
                     ELSE [@ EXCEPT !.status = status]],
          ret |-> [map[id] EXCEPT !.status = status]]
    ELSE [map |-> map, ret |-> None]

\* Mutant of Store_update_status: only the transitions Active -> Pending,
\* Pending -> Settled and Active or Pending -> Cancelled are applied.
Store_update_status_guarded(map, id, status) ==
  IF map[id] # None
    THEN IF <<map[id].status, status>> \in
              {<<"Active", "Pending">>, <<"Pending", "Settled">>,
               <<"Active", "Cancelled">>, <<"Pending", "Cancelled">>}
           THEN [map |-> [map EXCEPT ![id].status = status],
                 ret |-> [map[id] EXCEPT !.status = status]]
           ELSE [map |-> map, ret |-> map[id]]
    ELSE [map |-> map, ret |-> None]

\* Mutant of Store_update_status: the payments of the session follow a
\* Pending session to Confirmed.
Store_update_status_confirmPayments(map, id, status) ==
  IF map[id] # None
    THEN LET new == [map[id] EXCEPT
                       !.status = status,
                       !.payments = [k \in 1..Len(@) |->
                                       [@[k] EXCEPT !.status = "Confirmed"]]] IN
         [map |-> [map EXCEPT ![id] = new], ret |-> new]
    ELSE [map |-> map, ret |-> None]

\* SessionStore::update_status
Store_update_status(map, id, status) ==
  IF map[id] # None
    THEN [map |-> [map EXCEPT ![id].status = status],
          ret |-> [map[id] EXCEPT !.status = status]]
    ELSE [map |-> map, ret |-> None]

\* The ids a payment of the store can carry.
PaymentIds == {<<id, n>> : id \in Ids, n \in 1..MaxPayments}

HasPayment(session, payment_id) ==
  \E k \in 1..Len(session.payments) : session.payments[k].id = payment_id

\* remove_payment(session_id, payment_id) -> Option<Session>: the payment with
\* that id leaves the sequence, the total is recomputed and the updated
\* session is returned; an absent session or payment is "not found".
Store_remove_payment(map, id, payment_id) ==
  IF map[id] = None THEN [map |-> map, ret |-> None]
  ELSE IF ~HasPayment(map[id], payment_id) THEN [map |-> map, ret |-> None]
  ELSE LET kept == SelectSeq(map[id].payments,
                             LAMBDA q : q.id # payment_id)
           r == recalculate_total([map[id] EXCEPT !.payments = kept]) IN
       [map |-> [map EXCEPT ![id] = r.session], ret |-> r.session]

\* ------------------------------------------------------------ HTTP handlers
\* AppError::NotFound, answered with status 404.
NotFound == [error |-> "NotFound"]

\* Mutant of FreshSessionIds: the generated id may be one already stored.
FreshSessionIds_any(map) == Ids

\* Uuid::new_v4() for a session: an id no stored session has.
FreshSessionIds(map) == {i \in Ids : map[i] = None}

\* Uuid::new_v4() for a payment: an id no stored payment has, built from the
\* target session's id and the first number its payments do not use.
UsedPaymentNumbers(map, id) ==
  IF map[id] = None THEN {}
  ELSE {map[id].payments[k].id[2] : k \in 1..Len(map[id].payments)}

NewPaymentId(map, id) ==
  <<id, CHOOSE n \in 1..(Cardinality(UsedPaymentNumbers(map, id)) + 1) :
          /\ n \notin UsedPaymentNumbers(map, id)
          /\ \A m \in 1..(n - 1) : m \in UsedPaymentNumbers(map, id)>>

\* api::session::create_session
Api_create_session(map, id, user, now) ==
  LET r == Store_create(map, id, user, now) IN
  [map |-> r.map, ret |-> r.ret, code |-> 200,
   body |-> [session_id |-> r.ret.id, status |-> "active"]]

\* api::session::get_session
Api_get_session(map, id) ==
  LET r == Store_get(map, id) IN
  IF r.ret # None
    THEN [map |-> r.map, ret |-> r.ret, code |-> 200, body |-> r.ret]
    ELSE [map |-> r.map, ret |-> r.ret, code |-> 404, body |-> NotFound]

\* api::session::add_payment
Api_add_payment(map, id, recipient, amount, now) ==
  LET payment == Payment(NewPaymentId(map, id), recipient, amount, now)
      r == Store_add_payment(map, id, payment) IN
  IF r.ret # None
    THEN [map |-> r.map, ret |-> r.ret, code |-> 200, body |-> r.ret]
    ELSE [map |-> r.map, ret |-> r.ret, code |-> 404, body |-> NotFound]

\* Mutant of Api_finalize_session: finalize settles the session at once.
Api_finalize_session_settled(map, id) ==
  LET r == Store_update_status(map, id, "Settled") IN
  IF r.ret # None
    THEN [map |-> r.map, ret |-> r.ret, code |-> 200,
          body |-> [session_id |-> id, status |-> "pending", tx_hash |-> NoString]]
    ELSE [map |-> r.map, ret |-> r.ret, code |-> 404, body |-> NotFound]

\* api::session::finalize_session
Api_finalize_session(map, id) ==
  LET r == Store_update_status(map, id, "Pending") IN
  IF r.ret # None
    THEN [map |-> r.map, ret |-> r.ret, code |-> 200,
          body |-> [session_id |-> id, status |-> "pending", tx_hash |-> NoString]]
    ELSE [map |-> r.map, ret |-> r.ret, code |-> 404, body |-> NotFound]

\* ------------------------------------------------------------- ENS service
\* Strings of the ENS service are sequences of one-character strings.
Uppercase ==
  <<"A", "B", "C", "D", "E", "F", "G", "H", "I", "J", "K", "L", "M",
    "N", "O", "P", "Q", "R", "S", "T", "U", "V", "W", "X", "Y", "Z">>
Lowercase ==
  <<"a", "b", "c", "d", "e", "f", "g", "h", "i", "j", "k", "l", "m",
    "n", "o", "p", "q", "r", "s", "t", "u", "v", "w", "x", "y", "z">>

\* char::to_lowercase on the upper-case ASCII letters.
LowerOf ==
  [c \in {Uppercase[i] : i \in 1..26} |->
     Lowercase[CHOOSE i \in 1..26 : Uppercase[i] = c]]

to_lowercase_char(c) == IF c \in DOMAIN LowerOf THEN LowerOf[c] ELSE c

\* str::to_lowercase
to_lowercase(str) == [i \in 1..Len(str) |-> to_lowercase_char(str[i])]

\* char::is_ascii_hexdigit
HexDigits ==
  {DigitChars[i] : i \in 1..10}
    \cup {Uppercase[i] : i \in 1..6} \cup {Lowercase[i] : i \in 1..6}

is_ascii_hexdigit(c) == c \in HexDigits

DotEth == <<".", "e", "t", "h">>

\* str::ends_with
ends_with(str, suffix) ==
  /\ Len(str) >= Len(suffix)
  /\ SubSeq(str, Len(str) - Len(suffix) + 1, Len(str)) = suffix

\* str::trim_end_matches: the suffix is taken off as often as it ends the string.
RECURSIVE trim_end_matches(_, _)
trim_end_matches(str, suffix) ==
  IF ends_with(str, suffix)
    THEN trim_end_matches(SubSeq(str, 1, Len(str) - Len(suffix)), suffix)
    ELSE str

\* str.rsplit('.').next(): what follows the last '.', the whole string if none.
LastLabel(str) ==
  LET dots == {i \in 1..Len(str) : str[i] = "."} IN
  IF dots = {} THEN str
  ELSE SubSeq(str, (CHOOSE i \in dots : \A j \in dots : j <= i) + 1, Len(str))

\* Mutant of validate_name: only the suffix is looked at.
validate_name_suffixOnly(name) == ends_with(name, DotEth)

\* EnsService::validate_name: TRUE for Ok(()).
validate_name(name) ==
  IF ~ends_with(name, DotEth) THEN FALSE
  ELSE IF Len(LastLabel(trim_end_matches(name, DotEth))) < 3 THEN FALSE
  ELSE IF trim_end_matches(name, DotEth) = <<>> THEN FALSE
  ELSE TRUE

\* EnsService::validate_address: TRUE for Ok(()).
validate_address(address) ==
  IF Len(address) # 42 THEN FALSE
  ELSE IF SubSeq(address, 1, 2) # <<"0", "x">> THEN FALSE
  ELSE \A i \in 3..Len(address) : is_ascii_hexdigit(address[i])

\* "0x" followed by 40 times the character c.
Address(c) == <<"0", "x">> \o [i \in 1..40 |-> c]
ZeroAddress == Address("0")

\* cache_ttl: Duration::from_secs(300)
cache_ttl == 300
\* The clock advances in steps of half the TTL.
TickSecs == cache_ttl \div 2
MaxTime == MaxTicks * TickSecs

\* Names given to resolve: valid ones, one of them with an upper-case
\* letter, and invalid ones.
EnsNames ==
  { <<"A", "b", "c", ".", "e", "t", "h">>,
    <<"x", "y", "z", ".", "e", "t", "h">>,
    <<"a", "b", ".", "e", "t", "h">>,
    <<"a", "b", "c">>,
    <<"A", "B", "C", ".", "E", "T", "H">> }

\* Addresses the providers answer with.
ProviderAddresses == {Address("A"), Address("b")}

\* Addresses given to reverse_lookup: well-formed ones in both letter cases,
\* and malformed ones.
LookupAddresses ==
  { Address("a"), Address("A"),
    <<"0", "X">> \o [i \in 1..40 |-> "a"],
    <<"0", "x", "1", "2">>,
    Address("z") }

\* Keys the two HashMaps are read or written with: resolve and
\* reverse_lookup return before the map on a name or address that fails
\* validation.
CacheKeys == {to_lowercase(n) : n \in {m \in EnsNames : validate_name(m)}}
ReverseKeys ==
  {to_lowercase(a) :
     a \in ProviderAddresses \cup {b \in LookupAddresses : validate_address(b)}}

CacheEntry(address, avatar, expires_at) ==
  [address |-> address, avatar |-> avatar, expires_at |-> expires_at]

\* What ensdata.net answers to GET /{name}: a transport failure, a status
\* that is not a success, a body that is not JSON, or a JSON object.
ApiResponses ==
  { [kind |-> "http_error"], [kind |-> "status_404"],
    [kind |-> "json", has_address |-> FALSE, address |-> <<>>,
     avatar |-> NoString],
    [kind |-> "json", has_address |-> TRUE, address |-> ZeroAddress,
     avatar |-> NoString],
    [kind |-> "json", has_address |-> TRUE, address |-> Address("A"),
     avatar |-> "avatar.png"] }

\* What the subgraph answers: domains is the array of resolvedAddress.id
\* values (has_id FALSE: the id is not a string).
\* All the answers of ensdata.net that resolve_via_api tells apart.
AllApiResponses ==
  ApiResponses
    \cup { [kind |-> "bad_json"],
           [kind |-> "json", has_address |-> TRUE, address |-> <<>>,
            avatar |-> NoString] }

SubgraphResponses ==
  { [kind |-> "http_error"], [kind |-> "status_500"],
    [kind |-> "json", is_array |-> TRUE, domains |-> <<>>],
    [kind |-> "json", is_array |-> TRUE,
     domains |-> <<[has_id |-> TRUE, id |-> ZeroAddress]>>],
    [kind |-> "json", is_array |-> TRUE,
     domains |-> <<[has_id |-> TRUE, id |-> Address("b")]>>] }

\* All the answers of the subgraph that resolve_via_subgraph tells apart.
AllSubgraphResponses ==
  SubgraphResponses
    \cup { [kind |-> "bad_json"],
           [kind |-> "json", is_array |-> FALSE, domains |-> <<>>],
           [kind |-> "json", is_array |-> TRUE,
            domains |-> <<[has_id |-> FALSE, id |-> <<>>]>>],
           [kind |-> "json", is_array |-> TRUE,
            domains |-> <<[has_id |-> TRUE, id |-> <<>>]>>] }

\* What ensdata.net answers to GET /{address}.
ReverseResponses ==
  { [kind |-> "http_error"], [kind |-> "status_404"],
    [kind |-> "json", has_ens |-> FALSE, ens |-> <<>>,
     has_name |-> FALSE, name |-> <<>>],
    [kind |-> "json", has_ens |-> TRUE,
     ens |-> <<"x", "y", "z", ".", "e", "t", "h">>,
     has_name |-> TRUE, name |-> <<"a", "b", "c", ".", "e", "t", "h">>],
    [kind |-> "json", has_ens |-> FALSE, ens |-> <<>>,
     has_name |-> TRUE, name |-> <<"a", "b", "c", ".", "e", "t", "h">>] }

EnsOk(address, avatar) == [ok |-> TRUE, address |-> address, avatar |-> avatar]
EnsErr(kind) == [ok |-> FALSE, err |-> kind]

\* EnsService::resolve_via_api on the response resp.
resolve_via_api(resp) ==
  IF resp.kind = "http_error" THEN EnsErr("ResolutionFailed")
  ELSE IF resp.kind = "status_404" THEN EnsErr("NotFound")
  ELSE IF resp.kind = "bad_json" THEN EnsErr("ResolutionFailed")
  ELSE IF ~resp.has_address THEN EnsErr("NotFound")
  ELSE IF resp.address = <<>> \/ resp.address = ZeroAddress
    THEN EnsErr("NotFound")
  ELSE EnsOk(resp.address, resp.avatar)

\* EnsService::resolve_via_subgraph on the response resp.
resolve_via_subgraph(resp) ==
  IF resp.kind = "http_error" THEN EnsErr("ResolutionFailed")
  ELSE IF resp.kind = "status_500" THEN EnsErr("ResolutionFailed")
  ELSE IF resp.kind = "bad_json" THEN EnsErr("ResolutionFailed")
  ELSE IF ~resp.is_array THEN EnsErr("NotFound")
  ELSE IF resp.domains = <<>> THEN EnsErr("NotFound")
  ELSE IF ~resp.domains[1].has_id THEN EnsErr("NotFound")
  ELSE IF resp.domains[1].id = <<>> \/ resp.domains[1].id = ZeroAddress
    THEN EnsErr("NotFound")
  ELSE EnsOk(resp.domains[1].id, NoString)

\* EnsService::reverse_via_api on the response resp: Ok(Some(name)), Ok(None)
\* or Err.
reverse_via_api(resp) ==
  IF resp.kind = "http_error" THEN EnsErr("ResolutionFailed")
  ELSE IF resp.kind = "status_404" THEN [ok |-> TRUE, some |-> FALSE, name |-> <<>>]
  ELSE IF resp.kind = "bad_json" THEN EnsErr("ResolutionFailed")
  ELSE IF resp.has_ens THEN [ok |-> TRUE, some |-> TRUE, name |-> resp.ens]
  ELSE IF resp.has_name THEN [ok |-> TRUE, some |-> TRUE, name |-> resp.name]
  ELSE [ok |-> TRUE, some |-> FALSE, name |-> <<>>]

EmptyCache == [k \in CacheKeys |-> None]
EmptyReverseCache == [k \in ReverseKeys |-> None]

\* Mutant of IsFresh: no entry is ever taken from a cache.
IsFresh_never(entry, t) == FALSE

\* Mutant of IsFresh: an entry is still served at the instant it expires.
IsFresh_inclusive(entry, t) == entry.expires_at >= t

\* entry.expires_at > Instant::now()
IsFresh(entry, t) == entry.expires_at > t

\* Mutant of cache_result: the reverse cache is keyed by the address as given.
cache_result_rawKey(cache, reverse, name, address, avatar, t) ==
  [cache |-> [cache EXCEPT ![name] = CacheEntry(address, avatar, t + cache_ttl)],
   reverse_cache |->
     IF address \in ReverseKeys
       THEN [reverse EXCEPT ![address] = CacheEntry(name, avatar, t + cache_ttl)]
       ELSE reverse]

\* EnsService::cache_result at clock reading t: the forward entry under the
\* name, and the reverse entry under the lowercased address, its address
\* field holding the name.
cache_result(cache, reverse, name, address, avatar, t) ==
  [cache |-> [cache EXCEPT ![name] = CacheEntry(address, avatar, t + cache_ttl)],
   reverse_cache |->
     [reverse EXCEPT ![to_lowercase(address)] =
        CacheEntry(name, avatar, t + cache_ttl)]]

\* Mutant of EnsService_resolve: when both providers fail, the error of the
\* fallback is returned as it is.
EnsService_resolve_lastError(cache, reverse, t, name, api, sub) ==
  LET name_lower == to_lowercase(name)
      hit == cache[name_lower]
      primary == resolve_via_api(api)
      fallback == resolve_via_subgraph(sub)
      unchanged == [cache |-> cache, reverse_cache |-> reverse] IN
  IF ~validate_name(name)
    THEN [caches |-> unchanged, calls |-> <<>>, locks |-> <<>>,
          ret |-> EnsErr("InvalidName")]
  ELSE IF hit # None /\ IsFresh(hit, t)
    THEN [caches |-> unchanged, calls |-> <<>>, locks |-> <<"cache.read">>,
          ret |-> EnsOk(hit.address, hit.avatar)]
  ELSE IF primary.ok
    THEN [caches |-> cache_result(cache, reverse, name_lower,
                                  primary.address, primary.avatar, t),
          calls |-> <<"api">>,
          locks |-> <<"cache.read", "cache.write", "reverse_cache.write">>,
          ret |-> primary]
  ELSE IF fallback.ok
    THEN [caches |-> cache_result(cache, reverse, name_lower,
                                  fallback.address, fallback.avatar, t),
          calls |-> <<"api", "subgraph">>,
          locks |-> <<"cache.read", "cache.write", "reverse_cache.write">>,
          ret |-> fallback]
  ELSE [caches |-> unchanged, calls |-> <<"api", "subgraph">>,
        locks |-> <<"cache.read">>, ret |-> fallback]

\* EnsService::resolve called at clock reading t; the providers, when they
\* are called, answer api and sub (within the 10 s timeout of the HTTP
\* client, less than a step of the clock). calls lists the providers that
\* were called and locks the cache locks that were taken, in order.
EnsService_resolve(cache, reverse, t, name, api, sub) ==
  LET name_lower == to_lowercase(name)
      hit == cache[name_lower]
      primary == resolve_via_api(api)
      fallback == resolve_via_subgraph(sub)
      unchanged == [cache |-> cache, reverse_cache |-> reverse] IN
  IF ~validate_name(name)
    THEN [caches |-> unchanged, calls |-> <<>>, locks |-> <<>>,
          ret |-> EnsErr("InvalidName")]
  ELSE IF hit # None /\ IsFresh(hit, t)
    THEN [caches |-> unchanged, calls |-> <<>>, locks |-> <<"cache.read">>,
          ret |-> EnsOk(hit.address, hit.avatar)]
  ELSE IF primary.ok
    THEN [caches |-> cache_result(cache, reverse, name_lower,
                                  primary.address, primary.avatar, t),
          calls |-> <<"api">>,
          locks |-> <<"cache.read", "cache.write", "reverse_cache.write">>,
          ret |-> primary]
  ELSE IF fallback.ok
    THEN [caches |-> cache_result(cache, reverse, name_lower,
                                  fallback.address, fallback.avatar, t),
          calls |-> <<"api", "subgraph">>,
          locks |-> <<"cache.read", "cache.write", "reverse_cache.write">>,
          ret |-> fallback]
  ELSE [caches |-> unchanged, calls |-> <<"api", "subgraph">>,
        locks |-> <<"cache.read">>, ret |-> EnsErr("NotFound")]

\* Display of EnsError, up to the text that follows the colon.
EnsError_to_string(err) ==
  IF err = "InvalidName" THEN "Invalid ENS name: "
  ELSE IF err = "NotFound" THEN "ENS name not found: "
  ELSE "Resolution failed: "

\* An Option<String> of a response body: <<>> is null.
Null == <<>>
SomeString(str) == <<str>>

\* api::ens::resolve_ens: Json(ResolveResponse), always answered with 200.
Api_resolve_ens(cache, reverse, t, name, api, sub) ==
  LET r == EnsService_resolve(cache, reverse, t, name, api, sub) IN
  [caches |-> r.caches, calls |-> r.calls, locks |-> r.locks, ret |-> r.ret,
   code |-> 200,
   body |-> IF r.ret.ok
              THEN [name |-> name, address |-> SomeString(r.ret.address),
                    avatar |-> IF r.ret.avatar = NoString THEN Null
                               ELSE SomeString(r.ret.avatar),
                    error |-> Null]
              ELSE [name |-> name, address |-> Null, avatar |-> Null,
                    error |-> SomeString(EnsError_to_string(r.ret.err))]]

\* EnsService::reverse_lookup called at clock reading t; the provider, when
\* it is called, answers resp.
EnsService_reverse_lookup(cache, reverse, t, address, resp) ==
  LET addr_lower == to_lowercase(address)
      hit == reverse[addr_lower]
      answer == reverse_via_api(resp)
      unchanged == [cache |-> cache, reverse_cache |-> reverse] IN
  IF ~validate_address(address)
    THEN [caches |-> unchanged,  calls |-> <<>>,
          ret |-> EnsErr("InvalidName")]
  ELSE IF hit # None /\ IsFresh(hit, t)
    THEN [caches |-> unchanged,  calls |-> <<>>,
          ret |-> [ok |-> TRUE, some |-> TRUE, name |-> hit.address]]
  ELSE IF answer.ok /\ answer.some
    THEN [caches |->
            [cache |-> cache,
             reverse_cache |->
               [reverse EXCEPT ![addr_lower] =
                  CacheEntry(answer.name, NoString, t + cache_ttl)]],  calls |-> <<"reverse_api">>, ret |-> answer]
  ELSE [caches |-> unchanged,  calls |-> <<"reverse_api">>,
        ret |-> [ok |-> TRUE, some |-> FALSE, name |-> <<>>]]

\* ------------------------------------------------------------------- state
VARIABLES
  sessions,   \* SessionStore.sessions: the map behind the lock
  last,       \* the last operation run to completion by a single caller
  pc,         \* per request task: position in its store operation
  req,        \* per request task: the operation and its arguments
  ret,        \* per request task: the value its operation returned
  writers,    \* callers holding the map's write guard
  readers,    \* callers holding a read guard
  waitq,      \* callers waiting for the lock, in arrival order
  committed,  \* the map as the last completed write operation left it
  window,     \* per caller in get: states of its session committed since the call
  held,       \* the returned session a caller has kept
  cache,          \* EnsService.cache: lowercased name -> CacheEntry
  reverse_cache,  \* EnsService.reverse_cache: lowercased address -> CacheEntry
  clock           \* Instant::now(), in seconds

vars ==
  <<sessions, last, pc, req, ret, writers, readers, waitq, committed, window,
    held, cache, reverse_cache, clock>>
ensVars == <<cache, reverse_cache, clock>>
concVars ==
  <<pc, req, ret, writers, readers, waitq, committed, window, held, ensVars>>

NoReq == [op |-> "none"]

\* Mutant of Snapshot: the caller is handed a reference to the stored session.
Snapshot_ref(id, session) == [ref |-> TRUE, id |-> id, val |-> session]

\* What a store operation hands to its caller: session.clone() / .cloned(),
\* a value of its own (ref FALSE), not a reference to the entry of the map.
Snapshot(id, session) == [ref |-> FALSE, id |-> id, val |-> session]

NoSnapshot == [ref |-> FALSE, id |-> NoString, val |-> None]

Init ==
  /\ sessions = EmptyMap
  /\ last = [op |-> "new"]
  /\ pc = [p \in Procs |-> "idle"]
  /\ req = [p \in Procs |-> NoReq]
  /\ ret = [p \in Procs |-> None]
  /\ writers = {}
  /\ readers = {}
  /\ waitq = <<>>
  /\ committed = EmptyMap
  /\ window = [p \in Procs |-> {}]
  /\ held = NoSnapshot
  /\ cache = EmptyCache
  /\ reverse_cache = EmptyReverseCache
  /\ clock = 0

\* The error Session::add_payment returns inside the store call (dropped there).
EntityErr(map, id, payment) ==
  IF map[id] = None THEN NotCalled ELSE Session_add_payment(map[id], payment).err

\* Number of payments the store holds.
RECURSIVE CountPayments(_, _)
CountPayments(map, ids) ==
  IF ids = {} THEN 0
  ELSE LET i == CHOOSE j \in ids : TRUE IN
       (IF map[i] = None THEN 0 ELSE Len(map[i].payments))
         + CountPayments(map, ids \ {i})

\* An add_payment is issued while the store holds fewer than MaxPayments.
CanAdd(map) == CountPayments(map, Ids) < MaxPayments

\* --------------------------------------- one caller, store operations
StoreCreate ==
  \E id \in Ids, user \in Users, now \in Times :
    LET r == Store_create(sessions, id, user, now) IN
    /\ sessions' = r.map
    /\ last' = [op |-> "create", id |-> id, user |-> user, ret |-> r.ret]
    /\ UNCHANGED concVars

StoreGet ==
  \E id \in Ids :
    LET r == Store_get(sessions, id) IN
    /\ sessions' = r.map
    /\ last' = [op |-> "get", id |-> id, ret |-> r.ret]
    /\ UNCHANGED concVars

StoreAddPayment ==
  \E id \in Ids, recipient \in Recipients, amount \in Amounts, now \in Times :
    LET payment == Payment(NewPaymentId(sessions, id), recipient, amount, now)
        r == Store_add_payment(sessions, id, payment) IN
    /\ CanAdd(sessions)
    /\ sessions' = r.map
    /\ last' = [op |-> "add_payment", id |-> id, payment |-> payment,
                err |-> EntityErr(sessions, id, payment), ret |-> r.ret]
    /\ UNCHANGED concVars

StoreUpdateStatus ==
  \E id \in Ids, status \in SessionStatus :
    LET r == Store_update_status(sessions, id, status) IN
    /\ sessions' = r.map
    /\ last' = [op |-> "update_status", id |-> id, status |-> status,
                from |-> IF sessions[id] = None THEN NoString
                         ELSE sessions[id].status,
                ret |-> r.ret]
    /\ UNCHANGED concVars

\* --------------------------------------- one caller, HTTP requests
ApiCreateSession ==
  \E id \in FreshSessionIds(sessions), user \in Users, now \in Times :
    LET r == Api_create_session(sessions, id, user, now) IN
    /\ sessions' = r.map
    /\ last' = [op |-> "api_create_session", id |-> id, user |-> user,
                ret |-> r.ret, code |-> r.code, body |-> r.body]
    /\ UNCHANGED concVars

ApiGetSession ==
  \E id \in Ids :
    LET r == Api_get_session(sessions, id) IN
    /\ sessions' = r.map
    /\ last' = [op |-> "api_get_session", id |-> id,
                ret |-> r.ret, code |-> r.code, body |-> r.body]
    /\ UNCHANGED concVars

ApiAddPayment ==
  \E id \in Ids, recipient \in Recipients, amount \in Amounts, now \in Times :
    LET r == Api_add_payment(sessions, id, recipient, amount, now) IN
    /\ CanAdd(sessions)
    /\ sessions' = r.map
    /\ last' = [op |-> "api_add_payment", id |-> id,
                payment |-> Payment(NewPaymentId(sessions, id), recipient, amount, now),
                err |-> EntityErr(sessions, id,
                          Payment(NewPaymentId(sessions, id), recipient, amount, now)),
                ret |-> r.ret, code |-> r.code, body |-> r.body]
    /\ UNCHANGED concVars

\* The handler has no body extractor: the tx_hash of the request is not read.
ApiFinalizeSession ==
  \E id \in Ids, tx_hash \in TxHashes :
    LET r == Api_finalize_session(sessions, id) IN
    /\ sessions' = r.map
    /\ last' = [op |-> "api_finalize_session", id |-> id, tx_hash |-> tx_hash,
                ret |-> r.ret, code |-> r.code, body |-> r.body]
    /\ UNCHANGED concVars

StoreNext == StoreCreate \/ StoreGet \/ StoreAddPayment \/ StoreUpdateStatus

ApiNext ==
  ApiCreateSession \/ ApiGetSession \/ ApiAddPayment \/ ApiFinalizeSession

\* The store driven directly by one caller.
Next == StoreNext

Spec == Init /\ [][Next]_vars

\* The store driven by HTTP requests served one after the other.
ApiSpec == Init /\ [][ApiNext]_vars

\* ------------------------------------------- concurrent callers of the store
\* What the concurrent callers ask for: all four store operations on one id.
ConcId == "s1"
ConcAmounts == { <<"1", "2">>, <<"+", "0", "5">>, <<"a">> }
ConcStatuses == {"Pending"}

ConcRequests(p) ==
  {[op |-> "create", id |-> ConcId, session |-> Session_new(ConcId, "u1", 1)]}
  \cup {[op |-> "get", id |-> ConcId]}
  \cup {[op |-> "add_payment", id |-> ConcId,
         payment |-> Payment(<<"task", p>>, "0xR1", a, 1)] : a \in ConcAmounts}
  \cup {[op |-> "update_status", id |-> ConcId, status |-> st] :
          st \in ConcStatuses}

\* Mutant of LockMode: add_payment takes the read guard.
LockMode_addRead(op) == IF op \in {"get", "add_payment"} THEN "read" ELSE "write"

\* The guard each operation takes: sessions.read() in get, sessions.write()
\* in create, add_payment and update_status.
LockMode(op) == IF op = "get" THEN "read" ELSE "write"

\* tokio::sync::RwLock: a read guard is granted while no write guard is out,
\* a write guard while no guard at all is out.
CanGrant(mode) ==
  IF mode = "read" THEN writers = {} ELSE writers = {} /\ readers = {}

\* A caller enters operation r and queues for the lock (the .await).
CallReq(p, r) ==
  /\ pc[p] = "idle"
  /\ req' = [req EXCEPT ![p] = r]
  /\ window' = [window EXCEPT ![p] =
                  IF r.op = "get" THEN {committed[r.id]} ELSE {}]
  /\ pc' = [pc EXCEPT ![p] = "wait"]
  /\ waitq' = Append(waitq, p)
  /\ ret' = [ret EXCEPT ![p] = None]
  /\ UNCHANGED <<sessions, last, held, ensVars, writers, readers, committed>>

Call(p) == \E r \in ConcRequests(p) : CallReq(p, r)

\* The lock is granted in arrival order.
Acquire(p) ==
  /\ pc[p] = "wait"
  /\ waitq # <<>>
  /\ Head(waitq) = p
  /\ CanGrant(LockMode(req[p].op))
  /\ waitq' = Tail(waitq)
  /\ IF LockMode(req[p].op) = "read"
       THEN readers' = readers \cup {p} /\ UNCHANGED writers
       ELSE writers' = writers \cup {p} /\ UNCHANGED readers
  /\ pc' = [pc EXCEPT ![p] = "cs"]
  /\ UNCHANGED <<sessions, last, held, ensVars, req, ret, committed, window>>

\* Mutant of Return: the operation returns without dropping its guard.
Return_leak(p, r) ==
  /\ pc' = [pc EXCEPT ![p] = "done"]
  /\ ret' = [ret EXCEPT ![p] = r]
  /\ UNCHANGED <<last, held, ensVars, req, waitq, writers, readers>>

\* The guard is dropped when the operation returns value r.
Return(p, r) ==
  /\ pc' = [pc EXCEPT ![p] = "done"]
  /\ ret' = [ret EXCEPT ![p] = r]
  /\ writers' = writers \ {p}
  /\ readers' = readers \ {p}
  /\ UNCHANGED <<last, held, ensVars, req, waitq>>

\* A write operation returns: what it left in the map is the committed state,
\* and every get in flight on that id may observe it.
Commit(map) ==
  /\ committed' = map
  /\ window' = [q \in Procs |->
                  IF req[q].op = "get" /\ pc[q] \in {"wait", "cs"}
                    THEN window[q] \cup {map[req[q].id]}
                    ELSE window[q]]

DoCreate(p) ==
  /\ pc[p] = "cs"
  /\ req[p].op = "create"
  /\ sessions' = [sessions EXCEPT ![req[p].id] = req[p].session]
  /\ Return(p, req[p].session)
  /\ Commit(sessions')

DoGet(p) ==
  /\ pc[p] = "cs"
  /\ req[p].op = "get"
  /\ Return(p, Store_get(sessions, req[p].id).ret)
  /\ UNCHANGED <<sessions, committed, window>>

\* add_payment up to self.payments.push(payment); None when the id is absent.
DoPush(p) ==
  /\ pc[p] = "cs"
  /\ req[p].op = "add_payment"
  /\ IF sessions[req[p].id] = None
       THEN /\ Return(p, None)
            /\ Commit(sessions)
            /\ UNCHANGED sessions
       ELSE /\ sessions' = [sessions EXCEPT ![req[p].id] =
                              PushPayment(@, req[p].payment)]
            /\ pc' = [pc EXCEPT ![p] = "pushed"]
            /\ UNCHANGED <<last, held, ensVars, req, ret, writers, readers, waitq,
                           committed, window>>

\* add_payment from recalculate_total to the return of the clone.
DoFinish(p) ==
  /\ pc[p] = "pushed"
  /\ sessions' = [sessions EXCEPT ![req[p].id] = FinishAddPayment(@).session]
  /\ Return(p, sessions'[req[p].id])
  /\ Commit(sessions')

DoUpdateStatus(p) ==
  /\ pc[p] = "cs"
  /\ req[p].op = "update_status"
  /\ sessions' = Store_update_status(sessions, req[p].id, req[p].status).map
  /\ Return(p, Store_update_status(sessions, req[p].id, req[p].status).ret)
  /\ Commit(sessions')

Step(p) ==
  Acquire(p) \/ DoCreate(p) \/ DoGet(p) \/ DoPush(p) \/ DoFinish(p)
    \/ DoUpdateStatus(p)

ConcNext == \E p \in Procs : Call(p) \/ Step(p)

\* The store after create(ConcId, "u1") returned, nobody inside.
InitAdds ==
  /\ sessions = [EmptyMap EXCEPT ![ConcId] = Session_new(ConcId, "u1", 1)]
  /\ last = [op |-> "new"]
  /\ pc = [p \in Procs |-> "idle"]
  /\ req = [p \in Procs |-> NoReq]
  /\ ret = [p \in Procs |-> None]
  /\ writers = {}
  /\ readers = {}
  /\ waitq = <<>>
  /\ committed = sessions
  /\ window = [p \in Procs |-> {}]
  /\ held = NoSnapshot
  /\ cache = EmptyCache
  /\ reverse_cache = EmptyReverseCache
  /\ clock = 0

\* The tasks start against a new store or against one that holds a session.
ConcInit == Init \/ InitAdds

ConcSpec == ConcInit /\ [][ConcNext]_vars

\* The lock is fair and a caller inside an operation keeps running.
FairSpec == ConcSpec /\ \A p \in Procs : WF_vars(Step(p))

\* ---------------------------------- N concurrent add_payment on one session
ValidAmounts == { <<"5">>, <<"+", "3">>, <<"0", "9">>, <<"0">>, <<"1", "2">> }

\* Each caller issues one add_payment with an amount that parses.
CallAdd(p) ==
  \E a \in ValidAmounts :
    CallReq(p, [op |-> "add_payment", id |-> ConcId,
                payment |-> Payment(<<"task", p>>, "0xR1", a, 1)])

AddsNext ==
  \E p \in Procs : CallAdd(p) \/ Acquire(p) \/ DoPush(p) \/ DoFinish(p)

AddsSpec == InitAdds /\ [][AddsNext]_vars

\* --------------------------------------- a caller that keeps what it is given
CopyStatuses == {"Pending", "Settled"}
StoreOps == {"create", "get", "add_payment", "update_status"}

\* The session the caller reads through what it holds.
Seen == IF held.ref THEN sessions[held.id] ELSE held.val

\* One store operation on ConcId, by a caller that already holds a session or
\* holds none.
CopyStore ==
  /\ StoreNext
  /\ last'.id = ConcId
  /\ last'.op = "add_payment" => last'.payment.amount \in ConcAmounts
  /\ last'.op = "update_status" => last'.status \in CopyStatuses

\* The caller keeps the Session the last store operation returned to it.
CallerKeep ==
  /\ last.op \in StoreOps
  /\ last.ret # None
  /\ held' = Snapshot(last.id, last.ret)
  /\ last' = [op |-> "caller_keep", id |-> last.id]
  /\ UNCHANGED <<sessions, pc, req, ret, writers, readers, waitq, committed,
                 window, ensVars>>

\* The caller writes to the Session it holds: a status, or payments.clear().
CallerEdit ==
  /\ Seen # None
  /\ \E edited \in { [Seen EXCEPT !.status = "Cancelled"],
                     [Seen EXCEPT !.payments = <<>>] } :
       IF held.ref
         THEN /\ sessions' = [sessions EXCEPT ![held.id] = edited]
              /\ held' = held
         ELSE /\ held' = [held EXCEPT !.val = edited]
              /\ sessions' = sessions
  /\ last' = [op |-> "caller_edit", id |-> held.id]
  /\ UNCHANGED <<pc, req, ret, writers, readers, waitq, committed, window,
                 ensVars>>

\* remove_payment by the caller of the store operations.
StoreRemovePayment ==
  \E id \in Ids, payment_id \in PaymentIds :
    LET r == Store_remove_payment(sessions, id, payment_id) IN
    /\ sessions' = r.map
    /\ last' = [op |-> "remove_payment", id |-> id, payment_id |-> payment_id,
                ret |-> r.ret]
    /\ UNCHANGED concVars

RemoveNext == CopyStore \/ StoreRemovePayment

RemoveSpec == Init /\ [][RemoveNext]_vars

\* --------------------------------------- one caller of the ENS service
sessionVars ==
  <<sessions, pc, req, ret, writers, readers, waitq, committed, window, held>>

\* The answers of providers that are not called are not inputs of a call.
NoAnswer == [kind |-> "http_error"]

ResolveAsksApi(name) ==
  /\ validate_name(name)
  /\ IF cache[to_lowercase(name)] = None THEN TRUE
     ELSE ~IsFresh(cache[to_lowercase(name)], clock)

LookupAsksApi(address) ==
  /\ validate_address(address)
  /\ IF reverse_cache[to_lowercase(address)] = None THEN TRUE
     ELSE ~IsFresh(reverse_cache[to_lowercase(address)], clock)

EnsResolve ==
  \E name \in EnsNames :
  \E api \in IF ResolveAsksApi(name) THEN ApiResponses ELSE {NoAnswer} :
  \E sub \in IF ResolveAsksApi(name) /\ ~resolve_via_api(api).ok
                THEN SubgraphResponses ELSE {NoAnswer} :
    LET r == EnsService_resolve(cache, reverse_cache, clock, name, api, sub) IN
    /\ cache' = r.caches.cache
    /\ reverse_cache' = r.caches.reverse_cache
    /\ clock' = clock
    /\ last' = [op |-> "resolve", name |-> name,
                calls |-> r.calls, ret |-> r.ret]
    /\ UNCHANGED sessionVars

EnsReverseLookup ==
  \E address \in LookupAddresses :
  \E resp \in IF LookupAsksApi(address) THEN ReverseResponses ELSE {NoAnswer} :
    LET r == EnsService_reverse_lookup(cache, reverse_cache, clock, address,
                                       resp) IN
    /\ cache' = r.caches.cache
    /\ reverse_cache' = r.caches.reverse_cache
    /\ clock' = clock
    /\ last' = [op |-> "reverse_lookup", address |-> address,
                calls |-> r.calls, ret |-> r.ret]
    /\ UNCHANGED sessionVars

\* Time passes between two calls.
Tick ==
  /\ clock + TickSecs <= MaxTime
  /\ clock' = clock + TickSecs
  /\ UNCHANGED <<last, cache, reverse_cache, sessionVars>>

\* Names given to the handler: one valid name and the invalid ones.
ApiNames == EnsNames \ {<<"x", "y", "z", ".", "e", "t", "h">>}

\* GET /api/ens/resolve?name=...; the answers of the providers are kept.
ApiResolveEns ==
  \E name \in ApiNames :
  \E api \in IF ResolveAsksApi(name) THEN AllApiResponses ELSE {NoAnswer} :
  \E sub \in IF ResolveAsksApi(name) /\ ~resolve_via_api(api).ok
                THEN AllSubgraphResponses ELSE {NoAnswer} :
    LET r == Api_resolve_ens(cache, reverse_cache, clock, name, api, sub) IN
    /\ cache' = r.caches.cache
    /\ reverse_cache' = r.caches.reverse_cache
    /\ clock' = clock
    /\ last' = [op |-> "api_resolve_ens", name |-> name, api |-> api,
                sub |-> sub, calls |-> r.calls, locks |-> r.locks,
                ret |-> r.ret, code |-> r.code, body |-> r.body]
    /\ UNCHANGED sessionVars

EnsApiNext == ApiResolveEns \/ Tick

EnsApiSpec == Init /\ [][EnsApiNext]_vars

EnsNext == EnsResolve \/ EnsReverseLookup \/ Tick

EnsSpec == Init /\ [][EnsNext]_vars

CopyNext == CopyStore \/ CallerKeep \/ CallerEdit

CopySpec == Init /\ [][CopyNext]_vars

\* ----------------------------------------------------------------- claims
\* The number an amount string denotes: decimal digits after an optional '+'
\* (no width); -1 when the string is not such a number.
RECURSIVE DecimalValue(_, _)
DecimalValue(s, acc) ==
  IF s = <<>> THEN acc
  ELSE IF ~IsDigit(Head(s)) THEN -1
  ELSE DecimalValue(Tail(s), acc * 10 + DigitVal(Head(s)))

AmountValue(s) ==
  IF s = <<>> THEN -1
  ELSE IF Head(s) = "+" THEN (IF Len(s) = 1 THEN -1 ELSE DecimalValue(Tail(s), 0))
  ELSE DecimalValue(s, 0)

RECURSIVE ExactSum(_)
ExactSum(payments) ==
  IF payments = <<>> THEN 0
  ELSE AmountValue(Head(payments).amount) + ExactSum(Tail(payments))

AllAmountsValid(payments) ==
  \A k \in 1..Len(payments) : AmountValue(payments[k].amount) >= 0

\* A session whose total is the exact sum of the payments it holds.
TotalMatches(s) ==
  /\ AllAmountsValid(s.payments)
  /\ ExactSum(s.payments) <= U128_MAX
  /\ s.total_amount = to_string(ExactSum(s.payments))

IsAdd(l) == l.op \in {"add_payment", "api_add_payment"}
AddFailed(l) == IsAdd(l) /\ l.err # Ok /\ l.err # NotCalled

\* C1: in every reachable state every stored session's total_amount is the
\* exact sum of the amounts of the payments in its sequence ("0" when empty).
C1_TotalIsExactSum ==
  \A id \in Ids : sessions[id] # None => TotalMatches(sessions[id])

\* C1 witness: a failed add_payment has just run on a session that holds
\* payments, next to a successful history.
C1_Witness ==
  /\ AddFailed(last)
  /\ Len(sessions[last.id].payments) >= 1
  /\ sessions[last.id].total_amount # <<"0">>

\* C2: a failing Session::add_payment leaves the payment sequence and the
\* total of the session exactly as they were before the call.
C2_FailedAddRollsBack ==
  [][AddFailed(last') =>
       /\ sessions'[last'.id].payments = sessions[last'.id].payments
       /\ sessions'[last'.id].total_amount = sessions[last'.id].total_amount
       /\ last'.ret.payments = sessions[last'.id].payments
       /\ last'.ret.total_amount = sessions[last'.id].total_amount]_vars

\* C2 witness: an add_payment failed on overflow against a non-empty session.
C2_Witness ==
  /\ IsAdd(last)
  /\ last.err = ErrOverflow
  /\ Len(sessions[last.id].payments) >= 1

\* C3: add_payment with an amount that does not parse, on an existing session,
\* reports a failure: the store returns no session snapshot and the handler
\* does not answer with a success.
C3_InvalidAmountReported ==
  (IsAdd(last) /\ last.err = ErrParse(last.payment.amount)) =>
     /\ last.ret = None
     /\ (last.op = "api_add_payment" => last.code # 200)

IsApiLookup(l) ==
  l.op \in {"api_get_session", "api_add_payment", "api_finalize_session"}

\* C4: get_session, add_payment and finalize answer NotFound exactly when the
\* id is absent from the store, and then leave the store unchanged.
C4_NotFoundIffAbsent ==
  [][IsApiLookup(last') =>
       /\ (last'.code = 404) <=> (sessions[last'.id] = None)
       /\ (last'.body = NotFound) <=> (sessions[last'.id] = None)
       /\ (sessions[last'.id] = None) => (sessions' = sessions)]_vars

\* C4 witness: add_payment on an absent id answered NotFound while another
\* session is stored.
C4_Witness ==
  /\ last.op = "api_add_payment"
  /\ last.code = 404
  /\ \E id \in Ids : sessions[id] # None

SumOfRequests ==
  LET RECURSIVE S(_)
      S(ps) == IF ps = {} THEN 0
               ELSE LET q == CHOOSE x \in ps : TRUE IN
                    AmountValue(req[q].payment.amount) + S(ps \ {q})
  IN S(Procs)

AllAddsReturned == \A p \in Procs : pc[p] = "done"

\* C5: when the N concurrent add_payment calls have all returned and the sum
\* of their amounts is representable, the session holds exactly N payments,
\* each caller's payment once, and its total is the exact sum.
C5_NoLostUpdate ==
  (AllAddsReturned /\ SumOfRequests <= U128_MAX) =>
     /\ Len(sessions[ConcId].payments) = NumProcs
     /\ \A p \in Procs :
          \E k \in 1..NumProcs : sessions[ConcId].payments[k] = req[p].payment
     /\ sessions[ConcId].total_amount = to_string(SumOfRequests)

\* C5 witness: all calls returned a session, with a representable sum that is
\* not zero.
C5_Witness ==
  /\ AllAddsReturned
  /\ SumOfRequests <= U128_MAX
  /\ SumOfRequests > 0
  /\ \A p \in Procs : ret[p] # None

GetReturned(p) == pc[p] = "done" /\ req[p].op = "get"

\* C6: a get never returns an intermediate state of a mutation: the snapshot
\* holds no payment whose amount does not count into its total.
C6_NoIntermediateState ==
  \A p \in Procs : (GetReturned(p) /\ ret[p] # None) => TotalMatches(ret[p])

\* C6 witness: a get returned a session with payments after a write operation
\* changed that session between the get's call and its return.
C6_Witness ==
  \E p \in Procs :
    /\ GetReturned(p)
    /\ ret[p] # None
    /\ Len(ret[p].payments) >= 1
    /\ Cardinality(window[p]) >= 2

\* C7: a get returns the state its session had when the get was called or a
\* state committed after that, never an older one.
C7_Linearizable ==
  \A p \in Procs : GetReturned(p) => ret[p] \in window[p]

\* C7 witness: a get returned the effect of an add_payment that had completed
\* before it.
C7_Witness ==
  \E p \in Procs :
    /\ GetReturned(p)
    /\ ret[p] # None
    /\ Len(ret[p].payments) >= 1
    /\ ret[p] = sessions[req[p].id]

Inside(p) == pc[p] \in {"cs", "pushed"}

\* C8: at most one writer is inside the critical section, no reader is inside
\* with a writer, and every caller inside holds the guard of its operation.
C8_WritersExclusive ==
  /\ Cardinality({p \in Procs : Inside(p) /\ req[p].op # "get"}) <= 1
  /\ (\E p \in Procs : Inside(p) /\ req[p].op # "get")
       => ~(\E q \in Procs : Inside(q) /\ req[q].op = "get")
  /\ \A p \in Procs :
       Inside(p) => IF req[p].op = "get" THEN p \in readers ELSE p \in writers

\* C8 witness: a writer is inside while a reader and nobody else waits.
C8_Witness ==
  \E p, q \in Procs :
    /\ Inside(p)
    /\ req[p].op = "add_payment"
    /\ pc[q] = "wait"
    /\ req[q].op = "get"

\* C9: under a fair lock every store operation that was invoked completes.
C9_EveryOperationCompletes ==
  \A p \in Procs : (pc[p] \in {"wait", "cs", "pushed"}) ~> (pc[p] = "done")

\* C9 witness: a caller waits for the lock while another holds the write guard
\* in the middle of add_payment.
C9_Witness ==
  \E p, q \in Procs :
    /\ pc[p] = "wait"
    /\ pc[q] = "pushed"
    /\ q \in writers

\* C10: create_session always succeeds, and a get_session of the returned id
\* right after it returns that id, the given user, status Active, no payments
\* and total "0".
C10_CreateThenGet ==
  [][/\ last'.op = "api_create_session" => last'.code = 200
     /\ (/\ last.op = "api_create_session"
         /\ last'.op = "api_get_session"
         /\ last'.id = last.body.session_id)
        => /\ last'.code = 200
           /\ last'.body.id = last.body.session_id
           /\ last'.body.user = last.user
           /\ last'.body.status = "Active"
           /\ last'.body.payments = <<>>
           /\ last'.body.total_amount = <<"0">>]_vars

\* C10 witness: get_session returned a session as create_session leaves it.
C10_Witness ==
  /\ last.op = "api_get_session"
  /\ last.code = 200
  /\ last.body.payments = <<>>
  /\ last.body.status = "Active"
  /\ last.body.user = "u2"

AddSucceeded(l) == IsAdd(l) /\ l.err = Ok

\* C11: a successful add_payment returns and stores the previous payment
\* sequence, unchanged, with the new payment appended last, and a total that
\* is the previous total plus the new amount.
C11_AppendsAndAddsUp ==
  [][AddSucceeded(last') =>
       /\ last'.ret.payments = Append(sessions[last'.id].payments, last'.payment)
       /\ last'.ret.total_amount =
            to_string(ParseU128(sessions[last'.id].total_amount)
                        + AmountValue(last'.payment.amount))
       /\ sessions'[last'.id] = last'.ret]_vars

\* C11 witness: the second of two successful add_payment calls returned two
\* payments in call order and the sum "10" of "+05" and "+05".
C11_Witness ==
  /\ AddSucceeded(last)
  /\ Len(last.ret.payments) = 2
  /\ last.ret.payments[2] = last.payment
  /\ last.ret.payments[1].id # last.payment.id
  /\ last.ret.total_amount = <<"1", "0">>

\* C12: finalize on an existing session answers status pending and stores
\* Pending; from then on every request leaves it Pending, and get_session
\* returns the stored status.
C12_FinalizeThenPending ==
  [][/\ (last'.op = "api_finalize_session" /\ sessions[last'.id] # None)
          => /\ last'.code = 200
             /\ last'.body.status = "pending"
             /\ sessions'[last'.id].status = "Pending"
     /\ \A id \in Ids :
          (sessions[id] # None /\ sessions[id].status = "Pending")
            => (sessions'[id] # None /\ sessions'[id].status = "Pending")
     /\ (last'.op = "api_get_session" /\ sessions[last'.id] # None)
          => last'.body.status = sessions[last'.id].status]_vars

\* C12 witness: get_session shows Pending on a session that holds a payment.
C12_Witness ==
  /\ last.op = "api_get_session"
  /\ last.code = 200
  /\ last.body.status = "Pending"
  /\ Len(last.body.payments) = 1

\* C13: update_status on an existing session stores and returns the session
\* with its status replaced by the requested one, whatever the two statuses
\* are, and with every other field as it was.
C13_UpdateStatusUnconditional ==
  [][(last'.op = "update_status" /\ sessions[last'.id] # None) =>
       /\ sessions'[last'.id] =
            [sessions[last'.id] EXCEPT !.status = last'.status]
       /\ last'.ret = sessions'[last'.id]
       /\ last'.ret.payments = sessions[last'.id].payments
       /\ last'.ret.total_amount = sessions[last'.id].total_amount
       /\ last'.ret.id = sessions[last'.id].id
       /\ last'.ret.user = sessions[last'.id].user
       /\ last'.ret.created_at = sessions[last'.id].created_at]_vars

\* C13 witness: a Cancelled session that holds a payment was set to Active.
C13_Witness ==
  /\ last.op = "update_status"
  /\ last.from = "Cancelled"
  /\ last.status = "Active"
  /\ last.ret.status = "Active"
  /\ Len(last.ret.payments) >= 1

\* C14: get changes nothing in the store and returns the stored value of the
\* id, so a get that follows a get of the same id returns the same snapshot.
C14_GetIsPure ==
  [][last'.op = "get" =>
       /\ sessions' = sessions
       /\ last'.ret = sessions[last'.id]
       /\ (last.op = "get" /\ last.id = last'.id) => last'.ret = last.ret]_vars

\* C14 witness: a get returned a session that holds payments and is not in
\* the state create left it in.
C14_Witness ==
  /\ last.op = "get"
  /\ last.ret # None
  /\ Len(last.ret.payments) = 2
  /\ last.ret.status = "Settled"

\* The ids a get returns a session for.
Stored == {id \in Ids : Store_get(sessions, id).ret # None}

\* C16: no operation deletes a session: an id that get returns a session for
\* keeps being returned after every operation.
C16_NeverDeleted ==
  [][\A id \in Stored : Store_get(sessions', id).ret # None]_vars

\* C16 witness: a get returns a session that was cancelled, next to a second
\* stored session.
C16_Witness ==
  /\ last.op = "get"
  /\ last.ret # None
  /\ last.ret.status = "Cancelled"
  /\ Stored = Ids

IsPrefix(a, b) == Len(a) <= Len(b) /\ SubSeq(b, 1, Len(a)) = a

\* C17: through the HTTP handlers the payment sequence of a session only
\* grows at its end: after every request each stored session is still stored
\* and its earlier payment sequence is a prefix of the later one.
C17_AppendOnly ==
  [][\A id \in Ids :
       sessions[id] # None =>
         /\ sessions'[id] # None
         /\ IsPrefix(sessions[id].payments, sessions'[id].payments)]_vars

\* C17 witness: an add_payment request failed against a session that holds a
\* payment and has been finalized, while a second session is stored.
C17_Witness ==
  /\ last.op = "api_add_payment"
  /\ last.err = ErrParse(last.payment.amount)
  /\ Len(sessions[last.id].payments) = 1
  /\ sessions[last.id].status = "Pending"
  /\ \A id \in Ids : sessions[id] # None

\* C18: when the new amount and every stored amount are representable but
\* their exact sum is not, Session::add_payment returns the overflow error,
\* which is not the parse error, and the session stays as it was.
C18_OverflowIsDistinct ==
  [][(/\ IsAdd(last')
      /\ sessions[last'.id] # None
      /\ AmountValue(last'.payment.amount) \in 0..U128_MAX
      /\ ExactSum(sessions[last'.id].payments)
           + AmountValue(last'.payment.amount) > U128_MAX)
     => /\ last'.err = ErrOverflow
        /\ last'.err # ErrParse(last'.payment.amount)
        /\ sessions'[last'.id] = sessions[last'.id]
        /\ last'.ret = sessions[last'.id]]_vars

\* C18 witness: "+05" was added to a session whose total is "12".
C18_Witness ==
  /\ last.op = "add_payment"
  /\ last.err = ErrOverflow
  /\ last.payment.amount = <<"+", "0", "5">>
  /\ sessions[last.id].total_amount = <<"1", "2">>

\* A non-empty string of decimal digits.
IsDigitString(s) == s # <<>> /\ \A k \in 1..Len(s) : IsDigit(s[k])

\* C19: add_payment on an existing session fails with the invalid-amount
\* error exactly when the amount is not a non-empty string of decimal digits.
C19_InvalidAmountIffNotDigits ==
  (IsAdd(last) /\ last.err # NotCalled) =>
     ((last.err = ErrParse(last.payment.amount))
        <=> ~IsDigitString(last.payment.amount))

\* C20: finalize answers status pending with the tx_hash of its request, and
\* the get_session that follows shows that tx_hash on the session.
C20_TxHashEchoed ==
  [][/\ (last'.op = "api_finalize_session" /\ last'.code = 200)
          => /\ last'.body.status = "pending"
             /\ last'.body.tx_hash = last'.tx_hash
     /\ (/\ last.op = "api_finalize_session"
         /\ last.code = 200
         /\ last'.op = "api_get_session"
         /\ last'.id = last.id)
          => /\ "tx_hash" \in DOMAIN last'.body
             /\ last'.body.tx_hash = last.tx_hash]_vars

WithoutIndex(ps, k) == SubSeq(ps, 1, k - 1) \o SubSeq(ps, k + 1, Len(ps))

C22_AddChangesOnlyPaymentsAndTotal ==
  [][AddSucceeded(last') =>
       /\ sessions'[last'.id] =
            [sessions[last'.id] EXCEPT
               !.payments = sessions'[last'.id].payments,
               !.total_amount = sessions'[last'.id].total_amount]
       /\ last'.ret.id = sessions[last'.id].id
       /\ last'.ret.user = sessions[last'.id].user
       /\ last'.ret.status = sessions[last'.id].status
       /\ last'.ret.created_at = sessions[last'.id].created_at]_vars

\* C22 witness: a payment was added to a Settled session of user u2.
C22_Witness ==
  /\ AddSucceeded(last)
  /\ last.ret.status = "Settled"
  /\ last.ret.user = "u2"
  /\ last.ret.total_amount = <<"5">>

\* C23: through the HTTP handlers a session is Active when it enters the
\* store, changes status only by a finalize addressed to it, and is Pending
\* in every state after that; no session is ever Settled or Cancelled.
C23_ActiveThenPending ==
  [][\A id \in Ids :
       sessions'[id] # None =>
         /\ sessions'[id].status \in {"Active", "Pending"}
         /\ sessions[id] = None => sessions'[id].status = "Active"
         /\ (sessions[id] # None /\ sessions[id].status = "Pending")
              => sessions'[id].status = "Pending"
         /\ (sessions[id] # None /\ sessions'[id].status # sessions[id].status)
              => last'.op = "api_finalize_session" /\ last'.id = id]_vars

\* C23 witness: a second finalize ran on a session that holds a payment while
\* the other session is still Active.
C23_Witness ==
  /\ last.op = "api_finalize_session"
  /\ last.code = 200
  /\ Len(last.ret.payments) = 1
  /\ \E id \in Ids \ {last.id} :
       sessions[id] # None /\ sessions[id].status = "Active"

\* C24: every stored payment has status Pending, and a payment that is in a
\* session keeps its id, recipient, amount and status through every request.
C24_PaymentsStayPending ==
  [][\A id \in Ids :
       sessions'[id] # None =>
         /\ \A k \in 1..Len(sessions'[id].payments) :
              sessions'[id].payments[k].status = "Pending"
         /\ sessions[id] # None =>
              \A k \in 1..Len(sessions[id].payments) :
                /\ k <= Len(sessions'[id].payments)
                /\ sessions'[id].payments[k].id = sessions[id].payments[k].id
                /\ sessions'[id].payments[k].recipient
                     = sessions[id].payments[k].recipient
                /\ sessions'[id].payments[k].amount
                     = sessions[id].payments[k].amount
                /\ sessions'[id].payments[k].status
                     = sessions[id].payments[k].status]_vars

\* C24 witness: finalize ran on a session that holds two payments.
C24_Witness ==
  /\ last.op = "api_finalize_session"
  /\ last.code = 200
  /\ Len(sessions[last.id].payments) = 2
  /\ \A k \in 1..2 : sessions[last.id].payments[k].status = "Pending"

\* C25: add_payment does not look at the status of the session: whenever the
\* amount is valid and the sum fits, the payment is appended and the total
\* recomputed, whatever the status, a finalized (Pending) session included.
C25_AddIgnoresStatus ==
  [][(/\ IsAdd(last')
      /\ sessions[last'.id] # None
      /\ sessions[last'.id].status \in SessionStatus
      /\ ParseU128(last'.payment.amount) >= 0
      /\ ExactSum(sessions[last'.id].payments)
           + ParseU128(last'.payment.amount) <= U128_MAX)
     => /\ last'.err = Ok
        /\ Len(sessions'[last'.id].payments)
             = Len(sessions[last'.id].payments) + 1
        /\ sessions'[last'.id].total_amount =
             to_string(ExactSum(sessions[last'.id].payments)
                         + ParseU128(last'.payment.amount))
        /\ sessions'[last'.id].status = sessions[last'.id].status]_vars

\* C25 witness: a second payment was added to a session in status Pending.
C25_Witness ==
  /\ last.op = "add_payment"
  /\ last.err = Ok
  /\ last.ret.status = "Pending"
  /\ Len(last.ret.payments) = 2

\* C26: a store operation addressed to one id leaves the entry of every
\* other id as it was: unchanged when stored, absent when absent.
C26_OtherSessionsUntouched ==
  [][last'.op \in StoreOps =>
       \A other \in Ids \ {last'.id} : sessions'[other] = sessions[other]]_vars

\* C26 witness: an add_payment failed on one session while the other
\* session holds a payment and is not Active.
C26_Witness ==
  /\ last.op = "add_payment"
  /\ AddFailed(last)
  /\ \E other \in Ids \ {last.id} :
       /\ sessions[other] # None
       /\ Len(sessions[other].payments) = 1
       /\ sessions[other].status = "Cancelled"

\* C27: create with an id the store already holds replaces the session by a
\* new one: Active, no payments, total "0", the user of the call; get returns
\* the new session.
C27_CreateReplaces ==
  [][(last'.op = "create" /\ sessions[last'.id] # None) =>
       /\ sessions'[last'.id].status = "Active"
       /\ sessions'[last'.id].payments = <<>>
       /\ sessions'[last'.id].total_amount = <<"0">>
       /\ sessions'[last'.id].user = last'.user
       /\ Store_get(sessions', last'.id).ret = last'.ret
       /\ last'.ret = sessions'[last'.id]]_vars

\* C27 witness: the caller holds the session of u1 with a payment, in status
\* Pending, as the store returned it, and create has replaced it for u2.
C27_Witness ==
  /\ last.op = "create"
  /\ last.user = "u2"
  /\ held.id = last.id
  /\ held.val # None
  /\ held.val.user = "u1"
  /\ held.val.status = "Pending"
  /\ Len(held.val.payments) >= 1
  /\ sessions[last.id].payments = <<>>

\* A step of resolve, resp. reverse_lookup (the clock stands still in it).
ResolveStep == last'.op = "resolve" /\ clock' = clock
LookupStep == last'.op = "reverse_lookup" /\ clock' = clock

Some(name) == [ok |-> TRUE, some |-> TRUE, name |-> name]

\* C28: resolve on a valid name whose forward entry has not expired returns
\* the address and avatar of the entry, calls no provider and leaves both
\* caches as they were.
C28_CacheHit ==
  [][(/\ ResolveStep
      /\ validate_name(last'.name)
      /\ cache[to_lowercase(last'.name)] # None
      /\ cache[to_lowercase(last'.name)].expires_at > clock)
     => /\ last'.ret = EnsOk(cache[to_lowercase(last'.name)].address,
                             cache[to_lowercase(last'.name)].avatar)
        /\ last'.calls = <<>>
        /\ cache' = cache
        /\ reverse_cache' = reverse_cache]_vars

\* C28 witness: half a TTL after it was cached, "Abc.eth" was answered from
\* the entry of "abc.eth", avatar included.
C28_Witness ==
  /\ last.op = "resolve"
  /\ last.name = <<"A", "b", "c", ".", "e", "t", "h">>
  /\ last.calls = <<>>
  /\ last.ret = EnsOk(Address("A"), "avatar.png")
  /\ clock = TickSecs
  /\ cache[<<"a", "b", "c", ".", "e", "t", "h">>].expires_at = cache_ttl

\* C29 as stated: while the forward entry name -> address has not expired,
\* reverse_lookup of the address, as cached and in lower case, returns the
\* name without calling a provider.
C29_ReverseReturnsName ==
  \A n \in CacheKeys :
    (cache[n] # None /\ cache[n].expires_at > clock) =>
      \A a \in {cache[n].address, to_lowercase(cache[n].address)} :
        LET r == EnsService_reverse_lookup(cache, reverse_cache, clock, a,
                                           NoAnswer) IN
        r.ret = Some(n) /\ r.calls = <<>>

\* C29 amended: a resolution answered by a provider writes the forward entry
\* and, under the lowercased address, a reverse entry that holds the name,
\* both expiring a TTL later; a reverse entry changes only when a later
\* answer for the same address is cached; and reverse_lookup of a
\* well-formed address, in any letter case of its digits, whose reverse entry
\* has not expired returns the name of that entry without calling a provider.
C29_ReverseAfterCaching ==
  [][/\ (ResolveStep /\ last'.calls # <<>> /\ last'.ret.ok) =>
          /\ cache'[to_lowercase(last'.name)] =
               CacheEntry(last'.ret.address, last'.ret.avatar, clock + cache_ttl)
          /\ reverse_cache'[to_lowercase(last'.ret.address)] =
               CacheEntry(to_lowercase(last'.name), last'.ret.avatar,
                          clock + cache_ttl)
     /\ \A k \in ReverseKeys :
          reverse_cache'[k] # reverse_cache[k] =>
            \/ /\ ResolveStep /\ last'.calls # <<>> /\ last'.ret.ok
               /\ to_lowercase(last'.ret.address) = k
            \/ /\ LookupStep /\ last'.calls # <<>> /\ last'.ret.ok
               /\ last'.ret.some
               /\ to_lowercase(last'.address) = k
     /\ (/\ LookupStep
         /\ validate_address(last'.address)
         /\ reverse_cache[to_lowercase(last'.address)] # None
         /\ reverse_cache[to_lowercase(last'.address)].expires_at > clock)
        => /\ last'.ret = Some(reverse_cache[to_lowercase(last'.address)].address)
           /\ last'.calls = <<>>
           /\ reverse_cache' = reverse_cache
           /\ cache' = cache]_vars

\* C29 witness: the provider answered "Abc.eth" with an upper-case address;
\* half a TTL later reverse_lookup of the lower-case address returned
\* "abc.eth" without a provider call.
C29_Witness ==
  /\ last.op = "reverse_lookup"
  /\ last.address = Address("a")
  /\ last.calls = <<>>
  /\ last.ret = Some(<<"a", "b", "c", ".", "e", "t", "h">>)
  /\ clock = TickSecs
  /\ cache[<<"a", "b", "c", ".", "e", "t", "h">>] # None
  /\ cache[<<"a", "b", "c", ".", "e", "t", "h">>].address = Address("A")

\* C30: an entry whose expires_at is not later than the clock is not served.
\* resolve calls the primary provider, returns what the providers answer and
\* on success stores the answer with expiry clock + TTL; a failure returns
\* NotFound and leaves the entry. reverse_lookup does the same with its
\* provider and the reverse entry, and returns no name on a failure.
C30_ExpiredEntryNotServed ==
  [][/\ (/\ ResolveStep
         /\ validate_name(last'.name)
         /\ cache[to_lowercase(last'.name)] # None
         /\ cache[to_lowercase(last'.name)].expires_at <= clock)
        => /\ last'.calls # <<>>
           /\ last'.calls[1] = "api"
           /\ IF last'.ret.ok
                THEN cache'[to_lowercase(last'.name)] =
                       CacheEntry(last'.ret.address, last'.ret.avatar,
                                  clock + cache_ttl)
                ELSE /\ last'.ret = EnsErr("NotFound")
                     /\ cache' = cache
     /\ (/\ LookupStep
         /\ validate_address(last'.address)
         /\ reverse_cache[to_lowercase(last'.address)] # None
         /\ reverse_cache[to_lowercase(last'.address)].expires_at <= clock)
        => /\ last'.calls = <<"reverse_api">>
           /\ IF last'.ret.some
                THEN reverse_cache'[to_lowercase(last'.address)] =
                       CacheEntry(last'.ret.name, NoString, clock + cache_ttl)
                ELSE /\ last'.ret = [ok |-> TRUE, some |-> FALSE, name |-> <<>>]
                     /\ reverse_cache' = reverse_cache]_vars

\* C30 witness: at the instant the entry abc.eth -> 0xAA.. expired, resolve
\* went to the providers and the subgraph's answer 0xbb.. replaced it; the
\* reverse entry written with the old one is still there, expired.
C30_Witness ==
  /\ last.op = "resolve"
  /\ last.calls = <<"api", "subgraph">>
  /\ last.ret = EnsOk(Address("b"), NoString)
  /\ clock = cache_ttl
  /\ cache[to_lowercase(last.name)] =
       CacheEntry(Address("b"), NoString, clock + cache_ttl)
  /\ reverse_cache[Address("a")] =
       CacheEntry(to_lowercase(last.name), "avatar.png", clock)

\* A step of the resolve handler.
ApiResolveStep == last'.op = "api_resolve_ens" /\ clock' = clock

\* The answer of the primary API, resp. of the subgraph, carries an address
\* that is neither empty nor the zero address.
ApiSucceeds(resp) ==
  IF resp.kind # "json" THEN FALSE
  ELSE resp.has_address /\ resp.address # <<>> /\ resp.address # ZeroAddress

SubgraphSucceeds(resp) ==
  IF resp.kind # "json" THEN FALSE
  ELSE IF ~resp.is_array \/ resp.domains = <<>> THEN FALSE
  ELSE /\ resp.domains[1].has_id
       /\ resp.domains[1].id # <<>>
       /\ resp.domains[1].id # ZeroAddress

\* The forward cache has no entry for the name, or an expired one.
CacheMiss(name) ==
  IF cache[to_lowercase(name)] = None THEN TRUE
  ELSE cache[to_lowercase(name)].expires_at <= clock

\* The two entries cache_result writes for name -> address.
Cached(name, address, avatar) ==
  /\ cache'[to_lowercase(name)] =
       CacheEntry(address, avatar, clock + cache_ttl)
  /\ reverse_cache'[to_lowercase(address)] =
       CacheEntry(to_lowercase(name), avatar, clock + cache_ttl)

PrimaryLabel(name) == LastLabel(trim_end_matches(name, DotEth))

\* C32: for a name without the .eth suffix or with a primary label shorter
\* than 3 characters, resolve returns InvalidName before it takes a cache
\* lock or calls a provider, both caches are as before, and the handler
\* answers 200 with error set and address null.
C32_InvalidNameFirst ==
  [][(/\ ApiResolveStep
      /\ ~ends_with(last'.name, DotEth) \/ Len(PrimaryLabel(last'.name)) < 3)
     => /\ last'.ret = EnsErr("InvalidName")
        /\ last'.locks = <<>>
        /\ last'.calls = <<>>
        /\ cache' = cache
        /\ reverse_cache' = reverse_cache
        /\ last'.code = 200
        /\ last'.body.error # Null
        /\ last'.body.address = Null
        /\ last'.body.name = last'.name]_vars

\* C32 witness: "ab.eth" was rejected while the caches hold an unexpired
\* entry.
C32_Witness ==
  /\ last.op = "api_resolve_ens"
  /\ last.name = <<"a", "b", ".", "e", "t", "h">>
  /\ last.body.error = SomeString("Invalid ENS name: ")
  /\ last.body.address = Null
  /\ last.code = 200
  /\ \E k \in CacheKeys : cache[k] # None /\ cache[k].expires_at > clock

====
